---- MODULE Spec2Model ----
(***************************************************************************)
(* A model of financial-recurrence-rs: the RecurrenceRule of src/lib.rs    *)
(* (construction, checked and unchecked bound setters, plain setters,      *)
(* iter_after / iter) and the occurrence iterator of src/occurrences.rs    *)
(* (Iter::next: termination pre-checks, frequency advancement, day-filter  *)
(* resolution, emit).                                                      *)
(*                                                                         *)
(* A NaiveDate is modelled by its day number counted from 0001-01-01 = 1   *)
(* (proleptic Gregorian), converted from and to (year, month, day) by the  *)
(* calendar rules.  The representable range of chrono (whole years         *)
(* MIN.year() .. MAX.year()) is scaled down to MinYear .. MaxYear.         *)
(***************************************************************************)
EXTENDS Integers, Sequences, FiniteSets, TLC

(* ------------------------------ bounds --------------------------------- *)

\* first and last representable year (chrono: NaiveDate::MIN / MAX)
MinYear == 2024
MaxYear == 2028
\* no more than MaxPulls calls of next() are explored on one iterator
MaxPulls == 4

(* ------------------------------ Option --------------------------------- *)

None == [tag |-> "None"]
Some(v) == [tag |-> "Some", val |-> v]
\* a panic (unwrap / expect on None) as an outcome of a call
Panic == [tag |-> "Panic"]
IsSome(o) == o.tag = "Some"

(* ----------------------------- calendar -------------------------------- *)

IsLeap(y) == (y % 4 = 0 /\ y % 100 # 0) \/ y % 400 = 0

DaysInMonth(y, m) ==
    CASE m \in {1, 3, 5, 7, 8, 10, 12} -> 31
      [] m \in {4, 6, 9, 11} -> 30
      [] OTHER -> IF IsLeap(y) THEN 29 ELSE 28

\* days of the years 1 .. y-1
DaysBeforeYear(y) ==
    365 * (y - 1) + ((y - 1) \div 4) - ((y - 1) \div 100) + ((y - 1) \div 400)

\* days of the months 1 .. m-1 of year y
DaysBeforeMonth(y, m) ==
    <<0, 31, 59, 90, 120, 151, 181, 212, 243, 273, 304, 334>>[m]
        + (IF m > 2 /\ IsLeap(y) THEN 1 ELSE 0)

\* the date (y, m, d), which must exist
Ymd(y, m, d) == DaysBeforeYear(y) + DaysBeforeMonth(y, m) + d

MinDate == Ymd(MinYear, 1, 1)
MaxDate == Ymd(MaxYear, 12, 31)

\* Datelike::year
YearOf(n) ==
    CHOOSE y \in MinYear..MaxYear :
        DaysBeforeYear(y) < n /\ n <= DaysBeforeYear(y + 1)

\* Datelike::ordinal: the day of the year, from 1
OrdinalOf(n) == n - DaysBeforeYear(YearOf(n))

\* the month of year y that holds its o-th day
MonthOfOrdinal(y, o) ==
    CHOOSE m \in 1..12 :
        DaysBeforeMonth(y, m) < o /\ o <= DaysBeforeMonth(y, m) + DaysInMonth(y, m)

\* Datelike::month0 + 1
MonthOf(n) == MonthOfOrdinal(YearOf(n), OrdinalOf(n))

\* Datelike::day0 + 1
DayOf(n) == OrdinalOf(n) - DaysBeforeMonth(YearOf(n), MonthOf(n))

\* Datelike::weekday, 0 = Mon .. 6 = Sun (0001-01-01 is a Monday)
Weekday(n) == (n + 6) % 7

\* NaiveDate::from_ymd_opt
FromYmdOpt(y, m, d) ==
    IF /\ y \in MinYear..MaxYear
       /\ m \in 1..12
       /\ d >= 1
       /\ d <= DaysInMonth(y, m)
    THEN Some(Ymd(y, m, d))
    ELSE None

\* NaiveDate::checked_add_days / checked_sub_days
CheckedAddDays(n, k) == IF n + k > MaxDate THEN None ELSE Some(n + k)
CheckedSubDays(n, k) == IF n - k < MinDate THEN None ELSE Some(n - k)

\* the date (y, m, d) with d clamped to the length of the month, None past
\* the last representable year
ClampedYmd(y, m, d) ==
    IF y > MaxYear
    THEN None
    ELSE Some(Ymd(y, m, IF d > DaysInMonth(y, m) THEN DaysInMonth(y, m) ELSE d))

\* one month after (y, m, d) without the carry into the next year
AddMonthTo_SameYear(y, m, d) ==
    IF m = 12 THEN ClampedYmd(y, 1, d) ELSE ClampedYmd(y, m + 1, d)

\* one month after (y, m, d)
AddMonthTo(y, m, d) ==
    IF m = 12 THEN ClampedYmd(y + 1, 1, d) ELSE ClampedYmd(y, m + 1, d)

\* NaiveDate::checked_add_months(Months::new(1)): the day is clamped to the
\* length of the following month
CheckedAddMonth(n) == AddMonthTo(YearOf(n), MonthOf(n), DayOf(n))

\* Datelike::with_day
WithDay(n, d) == FromYmdOpt(YearOf(n), MonthOf(n), d)

(* ----------------------------- DayFilter ------------------------------- *)

MONDAY == 64
TUESDAY == 32
WEDNESDAY == 16
THURSDAY == 8
FRIDAY == 4
SATURDAY == 2
SUNDAY == 1
EVERYDAY == MONDAY + TUESDAY + WEDNESDAY + THURSDAY + FRIDAY + SATURDAY + SUNDAY
ANYDAY == EVERYDAY
WEEKDAYS == MONDAY + TUESDAY + WEDNESDAY + THURSDAY + FRIDAY
WEEKENDS == SATURDAY + SUNDAY
NODAY == 0

\* a membership test written as equality: true of one-day filters only
Contains_Equals(filter, flag) == filter = flag

\* DayFilter::contains for a one-bit flag
Contains(filter, flag) == (filter \div flag) % 2 = 1

\* a filter test that takes the empty set for "no restriction"
is_weekday_in_filter_EmptyMatches(weekday, filter) ==
    \/ filter = 0
    \/ CASE weekday = 0 -> Contains(filter, MONDAY)
         [] weekday = 1 -> Contains(filter, TUESDAY)
         [] weekday = 2 -> Contains(filter, WEDNESDAY)
         [] weekday = 3 -> Contains(filter, THURSDAY)
         [] weekday = 4 -> Contains(filter, FRIDAY)
         [] weekday = 5 -> Contains(filter, SATURDAY)
         [] weekday = 6 -> Contains(filter, SUNDAY)

is_weekday_in_filter(weekday, filter) ==
    CASE weekday = 0 -> Contains(filter, MONDAY)
      [] weekday = 1 -> Contains(filter, TUESDAY)
      [] weekday = 2 -> Contains(filter, WEDNESDAY)
      [] weekday = 3 -> Contains(filter, THURSDAY)
      [] weekday = 4 -> Contains(filter, FRIDAY)
      [] weekday = 5 -> Contains(filter, SATURDAY)
      [] weekday = 6 -> Contains(filter, SUNDAY)

(* ----------------------------- Frequency ------------------------------- *)

Weekly(days) == [kind |-> "Weekly", days |-> days]
Monthly(date) == [kind |-> "Monthly", date |-> date]
Yearly(date, month) == [kind |-> "Yearly", date |-> date, month |-> month]

IntoFuture == "IntoFuture"
IntoPast == "IntoPast"

(* ------------------------------ Iter::next ----------------------------- *)

\* first pre-check of next(): the cursor is past not_after
PastNotAfter(it, r) ==
    IsSome(r.not_after) /\ it.currently_at > r.not_after.val

\* the cap test with > for >=: one occurrence too many
PastMaxOccurrences_OffByOne(it, r) ==
    IsSome(r.max_occurrences) /\ it.index > r.max_occurrences.val

\* second pre-check of next(): the count has reached max_occurrences
PastMaxOccurrences(it, r) ==
    IsSome(r.max_occurrences) /\ it.index >= r.max_occurrences.val

\* the least member of a set of numbers, None of the empty set
FirstHit(S) ==
    IF S = {} THEN None ELSE Some(CHOOSE k \in S : \A h \in S : k <= h)

\* where the forward loop entered at d leaves, when the first date in the
\* filter is hit days after d (None: no date is)
LandFuture(d, hit) ==
    IF hit # None /\ CheckedAddDays(d, hit.val) # None
    THEN [res |-> Some(d + hit.val), iters |-> hit.val]
    ELSE [res |-> None, iters |-> (MaxDate - d) + 1]

\* The loop `while !is_weekday_in_filter(..) { next_date = next_date + 1 day ? }`
\* entered at date d.  It tests d, d + 1, ... and leaves at the first date whose
\* weekday is in the filter, after as many iterations as days it went.
\* Weekdays repeat every 7 days: when none of d .. d + 6 passes no later date
\* does, and the loop, like one whose first passing date is not representable,
\* runs on until checked_add_days fails on the last representable date.
ScanFuture(d, filter) ==
    LandFuture(d, FirstHit({k \in 0..6 : is_weekday_in_filter(Weekday(d + k), filter)}))

\* the same for the loop stepping with checked_sub_days
LandPast(d, hit) ==
    IF hit # None /\ CheckedSubDays(d, hit.val) # None
    THEN [res |-> Some(d - hit.val), iters |-> hit.val]
    ELSE [res |-> None, iters |-> (d - MinDate) + 1]

ScanPast(d, filter) ==
    LandPast(d, FirstHit({k \in 0..6 : is_weekday_in_filter(Weekday(d - k), filter)}))

\* the weekly scan from the day after the cursor, None when there is no such day
ScanFrom(first, days) ==
    IF first = None
    THEN [res |-> None, iters |-> 0]
    ELSE ScanFuture(first.val, days)

\* the weekly scan started on the cursor itself, without the first day forward
AdvanceWeekly_NoStep(cur, days) == ScanFrom(Some(cur), days)

\* Frequency::Weekly arm: at least one day forward, then on to a day of `days`
AdvanceWeekly(cur, days) == ScanFrom(CheckedAddDays(cur, 1), days)

\* `?` written where the code has expect: None ends the sequence
Expect_AsQuestionMark(o) == [res |-> o, iters |-> 0]

\* `.expect(..)`: a panic on None
Expect(o) == [res |-> IF o = None THEN Panic ELSE o, iters |-> 0]

\* `?` on the month step, then with_day(date).expect(..)
SetDay(moved, date) ==
    IF moved = None
    THEN [res |-> None, iters |-> 0]
    ELSE Expect(WithDay(moved.val, date))

\* need_next_month with > for >=: a cursor on the target day stays in its month
AdvanceMonthly_Strict(cur, date) ==
    IF DayOf(cur) > date
    THEN SetDay(CheckedAddMonth(cur), date)
    ELSE SetDay(Some(cur), date)

\* Frequency::Monthly arm
AdvanceMonthly(cur, date) ==
    IF DayOf(cur) >= date  \* need_next_month
    THEN SetDay(CheckedAddMonth(cur), date)
    ELSE SetDay(Some(cur), date)

\* need_next_year with > for >= in the month of the rule: a cursor on the
\* target date stays in its year
NeedNextYear_Strict(cur_month, cur_day, date, month) ==
    CASE cur_month > month -> TRUE
      [] cur_month = month -> cur_day > date
      [] OTHER -> FALSE

\* need_next_year of the Yearly arm, for a cursor in month cur_month, day cur_day
NeedNextYear(cur_month, cur_day, date, month) ==
    CASE cur_month > month -> TRUE
      [] cur_month = month -> cur_day >= date
      [] OTHER -> FALSE

\* the Yearly arm without need_next_year: always the cursor's own year
AdvanceYearly_ThisYear(cur, date, month) ==
    Expect(FromYmdOpt(YearOf(cur), month, date))

\* Frequency::Yearly arm
AdvanceYearly(cur, date, month) ==
    Expect(FromYmdOpt(IF NeedNextYear(MonthOf(cur), DayOf(cur), date, month)
                      THEN YearOf(cur) + 1
                      ELSE YearOf(cur),
                      month, date))

\* `match self.rule.frequency()`: the tentative next date
Advance(cur, frequency) ==
    CASE frequency.kind = "Weekly" -> AdvanceWeekly(cur, frequency.days)
      [] frequency.kind = "Monthly" -> AdvanceMonthly(cur, frequency.date)
      [] frequency.kind = "Yearly" -> AdvanceYearly(cur, frequency.date, frequency.month)

\* the resolution walking the wrong way: back for IntoFuture, on for IntoPast
Resolve_Swapped(next_date, filter, direction) ==
    IF is_weekday_in_filter(Weekday(next_date), filter)
    THEN [res |-> Some(next_date), iters |-> 0]
    ELSE IF direction = IntoFuture
         THEN ScanPast(next_date, filter)
         ELSE ScanFuture(next_date, filter)

\* day-filter resolution of the tentative date
Resolve(next_date, filter, direction) ==
    IF is_weekday_in_filter(Weekday(next_date), filter)
    THEN [res |-> Some(next_date), iters |-> 0]
    ELSE IF direction = IntoFuture
         THEN ScanFuture(next_date, filter)
         ELSE ScanPast(next_date, filter)

\* an iterator that starts counting afresh when a call returns no occurrence
AfterPull_Rewinds(it, res) ==
    IF IsSome(res)
    THEN [currently_at |-> res.val, index |-> it.index + 1]
    ELSE [it EXCEPT !.index = 0]

\* the iterator after a call of next() that returned res: an occurrence
\* counts and moves the cursor, every other return leaves the iterator as is
AfterPull(it, res) ==
    IF IsSome(res)
    THEN [currently_at |-> res.val, index |-> it.index + 1]
    ELSE it

\* what a call of next() on iterator `it` leaves behind: what it returned
\* (ret), the iterator afterwards (it), the cursor it started from, the
\* tentative date of the frequency advancement and the iterations of the
\* weekly scan loop and of the resolution loop
Outcome(it, ret, tentative, scan, resolve) ==
    [ret |-> ret, it |-> AfterPull(it, ret), from |-> it.currently_at,
     tentative |-> tentative, scan |-> scan, resolve |-> resolve]

\* next() from the day-filter resolution on
AfterAdvance(it, adv, rs) == Outcome(it, rs.res, adv.res, adv.iters, rs.iters)

\* next() from the frequency advancement on: `?` and expect leave early
Advanced(it, r, adv) ==
    IF ~IsSome(adv.res)
    THEN Outcome(it, adv.res, None, adv.iters, 0)
    ELSE AfterAdvance(it, adv, Resolve(adv.res.val, r.day_filter, r.resolve))

\* Iter::next
IterNext(it, r) ==
    IF PastNotAfter(it, r) THEN Outcome(it, None, None, 0, 0)
    ELSE IF PastMaxOccurrences(it, r) THEN Outcome(it, None, None, 0, 0)
    ELSE Advanced(it, r, Advance(it.currently_at, r.frequency))

(* ------------------------- state of the program ------------------------ *)

VARIABLES
    rule,    \* the RecurrenceRule
    iters,   \* per iterator id: None (not alive) or Some(Iter), borrowing rule
    seed,    \* per iterator id: how the live iterator was made (start, via)
    out,     \* per iterator id: what the calls of next() made so far returned
    call     \* the last call made on the rule or an iterator, with its outcome

vars == <<rule, iters, seed, out, call>>

IterIds == {1, 2}

(* inputs of the calls *)
NotBefores == {MinDate, Ymd(2025, 1, 1), Ymd(MaxYear, 4, 1)}
NotAfters == {None, Some(MinDate), Some(Ymd(2025, 1, 20)), Some(Ymd(MaxYear, 4, 1))}
StartPoints == {MinDate, Ymd(2025, 1, 15), Ymd(MaxYear, 12, 28)}
MaxOccurrences == {None, Some(0), Some(2)}
Frequencies ==
    {Weekly(WEEKENDS), Weekly(SUNDAY), Weekly(NODAY),
     Monthly(1), Monthly(28), Monthly(31),
     Yearly(1, 4), Yearly(29, 2)}
DayFilters == {EVERYDAY, WEEKDAYS, SUNDAY, NODAY}
ResolveDirections == {IntoFuture, IntoPast}

\* RecurrenceRule::new
New(frequency, not_before) ==
    [not_before |-> not_before,
     not_after |-> None,
     max_occurrences |-> None,
     frequency |-> frequency,
     day_filter |-> EVERYDAY,
     resolve |-> IntoFuture]

Init ==
    /\ \E f \in Frequencies, nb \in NotBefores : rule = New(f, nb)
    /\ iters = [g \in IterIds |-> None]
    /\ seed = [g \in IterIds |-> None]
    /\ out = [g \in IterIds |-> <<>>]
    /\ call = [op |-> "new"]

\* An Iter holds `rule: &'a RecurrenceRule`: while one is alive the rule
\* cannot be borrowed mutably, so no setter can be called.
NoBorrow == \A g \in IterIds : iters[g] = None

\* set_not_before with the comparison the wrong way round
RejectsNotBefore_Inverted(r, not_before) ==
    IsSome(r.not_after) /\ not_before < r.not_after.val

\* set_not_before refuses a date after not_after
RejectsNotBefore(r, not_before) ==
    IsSome(r.not_after) /\ not_before > r.not_after.val

\* set_not_after refusing not_before itself as well
RejectsNotAfter_Inclusive(r, not_after) ==
    IsSome(not_after) /\ not_after.val <= r.not_before

\* set_not_after refuses a date before not_before
RejectsNotAfter(r, not_after) ==
    IsSome(not_after) /\ not_after.val < r.not_before

SetNotBeforeUnchecked(d) ==
    /\ NoBorrow
    /\ rule' = [rule EXCEPT !.not_before = d]
    /\ call' = [op |-> "set_not_before_unchecked", arg |-> d]
    /\ UNCHANGED <<iters, seed, out>>

SetNotBefore(d) ==
    /\ NoBorrow
    /\ IF RejectsNotBefore(rule, d)
       THEN /\ rule' = rule
            /\ call' = [op |-> "set_not_before", arg |-> d, ret |-> FALSE]
       ELSE /\ rule' = [rule EXCEPT !.not_before = d]
            /\ call' = [op |-> "set_not_before", arg |-> d, ret |-> TRUE]
    /\ UNCHANGED <<iters, seed, out>>

SetNotAfterUnchecked(o) ==
    /\ NoBorrow
    /\ rule' = [rule EXCEPT !.not_after = o]
    /\ call' = [op |-> "set_not_after_unchecked", arg |-> o]
    /\ UNCHANGED <<iters, seed, out>>

SetNotAfter(o) ==
    /\ NoBorrow
    /\ IF RejectsNotAfter(rule, o)
       THEN /\ rule' = rule
            /\ call' = [op |-> "set_not_after", arg |-> o, ret |-> FALSE]
       ELSE /\ rule' = [rule EXCEPT !.not_after = o]
            /\ call' = [op |-> "set_not_after", arg |-> o, ret |-> TRUE]
    /\ UNCHANGED <<iters, seed, out>>

SetMaxOccurrences(o) ==
    /\ NoBorrow
    /\ rule' = [rule EXCEPT !.max_occurrences = o]
    /\ call' = [op |-> "set_max_occurrences", arg |-> o]
    /\ UNCHANGED <<iters, seed, out>>

SetFrequency(f) ==
    /\ NoBorrow
    /\ rule' = [rule EXCEPT !.frequency = f]
    /\ call' = [op |-> "set_frequency", arg |-> f]
    /\ UNCHANGED <<iters, seed, out>>

SetDayFilter(f) ==
    /\ NoBorrow
    /\ rule' = [rule EXCEPT !.day_filter = f]
    /\ call' = [op |-> "set_day_filter", arg |-> f]
    /\ UNCHANGED <<iters, seed, out>>

SetResolve(d) ==
    /\ NoBorrow
    /\ rule' = [rule EXCEPT !.resolve = d]
    /\ call' = [op |-> "set_resolve", arg |-> d]
    /\ UNCHANGED <<iters, seed, out>>

\* RecurrenceRule::iter_after
IterAfter(g, start_point) ==
    /\ iters[g] = None
    /\ iters' = [iters EXCEPT ![g] = Some([currently_at |-> start_point, index |-> 0])]
    /\ seed' = [seed EXCEPT ![g] = Some([start |-> start_point, via |-> "iter_after"])]
    /\ out' = [out EXCEPT ![g] = <<>>]
    /\ call' = [op |-> "iter_after", id |-> g, arg |-> start_point, ret |-> TRUE]
    /\ UNCHANGED rule

\* iter() starting at not_before itself, which next() then excludes
IterStartPoint_Inclusive(r) == Some(r.not_before)

\* the start point iter() hands to iter_after, before the unwrap
IterStartPoint(r) == CheckedSubDays(r.not_before, 1)

\* RecurrenceRule::iter (and IntoIterator::into_iter): iter_after the day
\* before not_before, a panic when there is no such day
IterFromStart(g) ==
    /\ iters[g] = None
    /\ LET start == IterStartPoint(rule)
       IN  IF start = None
           THEN /\ call' = [op |-> "iter", id |-> g, ret |-> FALSE]
                /\ UNCHANGED <<iters, seed, out>>
           ELSE /\ iters' = [iters EXCEPT
                                ![g] = Some([currently_at |-> start.val, index |-> 0])]
                /\ seed' = [seed EXCEPT ![g] = Some([start |-> start.val, via |-> "iter"])]
                /\ out' = [out EXCEPT ![g] = <<>>]
                /\ call' = [op |-> "iter", id |-> g, ret |-> TRUE]
    /\ UNCHANGED rule

\* next() keeping the cursor in a place all iterators of the rule share
Pull_SharedCursor(g) ==
    /\ iters[g] # None
    /\ Len(out[g]) < MaxPulls
    /\ out' = [out EXCEPT ![g] = Append(@, IterNext(iters[g].val, rule))]
    /\ iters' = [h \in IterIds |->
                    IF h = g THEN Some(out'[g][Len(out'[g])].it)
                    ELSE IF iters[h] = None THEN None
                    ELSE Some([iters[h].val EXCEPT
                                  !.currently_at = out'[g][Len(out'[g])].it.currently_at])]
    /\ call' = [op |-> "next", id |-> g, ret |-> out'[g][Len(out'[g])].ret]
    /\ UNCHANGED <<rule, seed>>

\* one call of Iter::next on iterator g
Pull(g) ==
    /\ iters[g] # None
    /\ Len(out[g]) < MaxPulls
    /\ out' = [out EXCEPT ![g] = Append(@, IterNext(iters[g].val, rule))]
    /\ iters' = [iters EXCEPT ![g] = Some(out'[g][Len(out'[g])].it)]
    /\ call' = [op |-> "next", id |-> g, ret |-> out'[g][Len(out'[g])].ret]
    /\ UNCHANGED <<rule, seed>>

\* the iterator goes out of scope and its borrow of the rule ends
Drop(g) ==
    /\ iters[g] # None
    /\ iters' = [iters EXCEPT ![g] = None]
    /\ seed' = [seed EXCEPT ![g] = None]
    /\ out' = [out EXCEPT ![g] = <<>>]
    /\ call' = [op |-> "drop", id |-> g]
    /\ UNCHANGED rule

\* the rule's mutators that keep the bounds checked
CheckedMutators ==
    \/ \E d \in NotBefores : SetNotBefore(d)
    \/ \E o \in NotAfters : SetNotAfter(o)
    \/ \E o \in MaxOccurrences : SetMaxOccurrences(o)
    \/ \E f \in Frequencies : SetFrequency(f)
    \/ \E f \in DayFilters : SetDayFilter(f)
    \/ \E d \in ResolveDirections : SetResolve(d)

UncheckedMutators ==
    \/ \E d \in NotBefores : SetNotBeforeUnchecked(d)
    \/ \E o \in NotAfters : SetNotAfterUnchecked(o)

\* one iterator over the rule
Iteration ==
    \/ \E s \in StartPoints : IterAfter(1, s)
    \/ IterFromStart(1)
    \/ Pull(1)
    \/ Drop(1)

Next == CheckedMutators \/ UncheckedMutators \/ Iteration

Spec == Init /\ [][Next]_vars

\* rules that only ever go through the checked bound setters and the plain setters
NextChecked == CheckedMutators

SpecChecked == Init /\ [][NextChecked]_vars

\* two iterators over the same rule, their calls interleaved at will
IterationTwo ==
    \E g \in IterIds :
        \/ \E s \in StartPoints : IterAfter(g, s)
        \/ IterFromStart(g)
        \/ Pull(g)
        \/ Drop(g)

NextTwo ==
    \/ \E f \in DayFilters : SetDayFilter(f)
    \/ \E d \in ResolveDirections : SetResolve(d)
    \/ IterationTwo

SpecTwo == Init /\ [][NextTwo]_vars

(* --------------------------- the claims -------------------------------- *)

\* the positions of out[g] at which next() returned an occurrence
EmittedAt(g) == {i \in DOMAIN out[g] : IsSome(out[g][i].ret)}

\* C1: the dates an iterator emits are strictly increasing: each emitted
\* occurrence is later than the one emitted before it by the same iterator.
C1_StrictlyIncreasing ==
    \A g \in IterIds : \A i, j \in EmittedAt(g) :
        i < j => out[g][i].ret.val < out[g][j].ret.val

\* C2: when the rule has a not_after, no emitted occurrence is later than it.
C2_NeverAfterNotAfter ==
    \A g \in IterIds : \A i \in EmittedAt(g) :
        IsSome(rule.not_after) => out[g][i].ret.val <= rule.not_after.val

\* C3: with max_occurrences = N an iterator returns an occurrence on at most
\* N of its pulls, and with N = 0 its very first pull returns end-of-sequence.
C3_AtMostMaxOccurrences ==
    \A g \in IterIds :
        IsSome(rule.max_occurrences) =>
            /\ Cardinality(EmittedAt(g)) <= rule.max_occurrences.val
            /\ (rule.max_occurrences.val = 0 /\ Len(out[g]) >= 1) => out[g][1].ret = None

\* an iterator over a rule capped at 2 emitted twice and was pulled again
C3_Witness ==
    /\ rule.max_occurrences = Some(2)
    /\ rule.not_after = None
    /\ Len(out[1]) = 3
    /\ IsSome(out[1][1].ret)
    /\ IsSome(out[1][2].ret)
    /\ out[1][3].ret = None

\* C4: under the checked bound setters and the plain setters, not_after is
\* absent or not_before <= not_after in every state of the rule.
C4_BoundsOrdered ==
    IsSome(rule.not_after) => rule.not_before <= rule.not_after.val

\* a rule with an upper bound has just refused a not_after before not_before
C4_Witness ==
    /\ call.op = "set_not_after"
    /\ call.ret = FALSE
    /\ IsSome(rule.not_after)
    /\ rule.not_before > MinDate

\* what one call of a checked bound setter may do
C5_Step ==
    /\ call'.op = "set_not_before" =>
            /\ call'.ret = ~(IsSome(rule.not_after) /\ call'.arg > rule.not_after.val)
            /\ call'.ret = FALSE => rule' = rule
            /\ call'.ret = TRUE => rule' = [rule EXCEPT !.not_before = call'.arg]
    /\ call'.op = "set_not_after" =>
            /\ call'.ret = ~(IsSome(call'.arg) /\ call'.arg.val < rule.not_before)
            /\ call'.ret = FALSE => rule' = rule
            /\ call'.ret = TRUE => rule' = [rule EXCEPT !.not_after = call'.arg]
            /\ call'.arg = None => call'.ret = TRUE

C6_EndIsPermanent ==
    \A g \in IterIds : \A i, j \in DOMAIN out[g] :
        (i < j /\ out[g][i].ret = None) => out[g][j].ret = None

\* an iterator emitted, then ended, and was pulled twice more
C6_Witness ==
    /\ Len(out[1]) = 4
    /\ IsSome(out[1][1].ret)
    /\ out[1][2].ret = None
    /\ out[1][3].ret = None
    /\ out[1][4].ret = None

\* C7: the first occurrence of an iterator made by iter_after(start) is
\* strictly after start.
C7_FirstAfterStart ==
    \A g \in IterIds :
        (/\ IsSome(seed[g])
         /\ seed[g].val.via = "iter_after"
         /\ 1 \in EmittedAt(g))
        => out[g][1].ret.val > seed[g].val.start

\* not_before is a date the frequency of the rule names
MatchesFrequency(d, frequency) ==
    CASE frequency.kind = "Weekly" -> is_weekday_in_filter(Weekday(d), frequency.days)
      [] frequency.kind = "Monthly" -> DayOf(d) = frequency.date
      [] frequency.kind = "Yearly" ->
            MonthOf(d) = frequency.month /\ DayOf(d) = frequency.date

\* iterator g was made by iter() and pulled, over a rule whose not_before
\* matches the frequency and the day filter and whose cap is not 0
C8_Case(g) ==
    /\ IsSome(seed[g])
    /\ seed[g].val.via = "iter"
    /\ Len(out[g]) >= 1
    /\ MatchesFrequency(rule.not_before, rule.frequency)
    /\ is_weekday_in_filter(Weekday(rule.not_before), rule.day_filter)
    /\ rule.max_occurrences # Some(0)

\* C8 as stated: iter() starts the day before not_before, and in the case
\* above its first pull returns not_before.
C8_Original ==
    \A g \in IterIds :
        /\ (IsSome(seed[g]) /\ seed[g].val.via = "iter") =>
                seed[g].val.start = rule.not_before - 1
        /\ C8_Case(g) => out[g][1].ret = Some(rule.not_before)

\* C8: iter() starts the day before not_before, and in the case above its
\* first pull returns not_before, provided not_after is absent or not
\* earlier than the day before not_before.
C8_FirstOfIterIsNotBefore ==
    \A g \in IterIds :
        /\ (IsSome(seed[g]) /\ seed[g].val.via = "iter") =>
                seed[g].val.start = rule.not_before - 1
        /\ (/\ C8_Case(g)
            /\ IsSome(rule.not_after) => rule.not_after.val >= rule.not_before - 1)
           => out[g][1].ret = Some(rule.not_before)

\* iter() over a bounded rule returned not_before on its first pull
C8_Witness ==
    /\ C8_Case(1)
    /\ IsSome(rule.not_after)
    /\ out[1][1].ret = Some(rule.not_before)

\* C9: every emitted occurrence is on or after the rule's not_before.
C9_NeverBeforeNotBefore ==
    \A g \in IterIds : \A i \in EmittedAt(g) :
        out[g][i].ret.val >= rule.not_before

\* the day and month numbers of the frequency name a date of every year
\* (Monthly: of every month)
AlwaysValid(frequency) ==
    CASE frequency.kind = "Weekly" -> TRUE
      [] frequency.kind = "Monthly" -> frequency.date \in 1..28
      [] frequency.kind = "Yearly" ->
            /\ frequency.month \in 1..12
            /\ frequency.date >= 1
            /\ frequency.date <= DaysInMonth(2023, frequency.month)

\* C10: over a rule with valid day and month numbers no pull fails fatally:
\* a next date outside the representable dates ends the sequence.
C10_OverflowEndsSequence ==
    \A g \in IterIds : \A i \in DOMAIN out[g] :
        AlwaysValid(rule.frequency) => out[g][i].ret # Panic

\* the iterator as it was when the pull recorded in rec began
PullFrom(rec) ==
    [currently_at |-> rec.from,
     index |-> IF IsSome(rec.ret) THEN rec.it.index - 1 ELSE rec.it.index]

\* the pull recorded in rec got past both termination pre-checks, to the
\* frequency advancement
ReachedAdvance(rec) ==
    /\ ~PastNotAfter(PullFrom(rec), rule)
    /\ ~PastMaxOccurrences(PullFrom(rec), rule)

\* months counted through the years
MonthIndex(y, m) == 12 * y + (m - 1)
IndexYear(x) == x \div 12
IndexMonth(x) == (x % 12) + 1

\* the month a Monthly{date} pull from cursor cur aims at: the cursor's month
\* when its day-of-month is below date, the following month otherwise
MonthlyTarget(cur, date) ==
    MonthIndex(YearOf(cur), MonthOf(cur)) + (IF DayOf(cur) < date THEN 0 ELSE 1)

\* C11: a Monthly{date: d} pull that reaches the frequency advancement and
\* whose target month has fewer than d days fails fatally: it returns neither
\* a date (clamped or other) nor end-of-sequence; a pull whose target month
\* has a day d gets exactly that day as its tentative date.
C11_ShortMonthIsFatal ==
    \A g \in IterIds : \A i \in DOMAIN out[g] :
        (/\ rule.frequency.kind = "Monthly"
         /\ rule.frequency.date >= 1
         /\ ReachedAdvance(out[g][i])
         /\ IndexYear(MonthlyTarget(out[g][i].from, rule.frequency.date)) <= MaxYear)
        => LET t == MonthlyTarget(out[g][i].from, rule.frequency.date)
           IN  IF DaysInMonth(IndexYear(t), IndexMonth(t)) < rule.frequency.date
               THEN out[g][i].ret = Panic
               ELSE out[g][i].tentative =
                        Some(Ymd(IndexYear(t), IndexMonth(t), rule.frequency.date))

\* a Monthly{31} rule was built, its iterator emitted 31 January and then
\* failed on February
C11_Witness ==
    /\ rule.frequency = Monthly(31)
    /\ Len(out[1]) >= 2
    /\ IsSome(out[1][1].ret)
    /\ DayOf(out[1][1].ret.val) = 31
    /\ out[1][2].ret = Panic

\* how many days after cur the first date with a weekday in days lies (1 .. 7)
DaysToNext(cur, days) ==
    CHOOSE k \in 1..7 :
        /\ is_weekday_in_filter(Weekday(cur + k), days)
        /\ \A j \in 1..(k - 1) : ~is_weekday_in_filter(Weekday(cur + j), days)

\* C12: over a Weekly{days} rule with non-empty days and day_filter =
\* everyday, a pull that reaches the frequency advancement returns the
\* earliest date strictly after the cursor whose weekday is in days (and
\* end-of-sequence when that date is not representable); the cursor itself
\* is never returned, even when its weekday is in days.
C12_WeeklyEarliestAfterCursor ==
    \A g \in IterIds : \A i \in DOMAIN out[g] :
        (/\ rule.frequency.kind = "Weekly"
         /\ rule.frequency.days # NODAY
         /\ rule.day_filter = EVERYDAY
         /\ ReachedAdvance(out[g][i]))
        => IF out[g][i].from + DaysToNext(out[g][i].from, rule.frequency.days) <= MaxDate
           THEN out[g][i].ret =
                    Some(out[g][i].from + DaysToNext(out[g][i].from, rule.frequency.days))
           ELSE out[g][i].ret = None

\* a pull from a cursor whose weekday is in days returned the date a whole
\* week later
C12_Witness ==
    /\ rule.frequency.kind = "Weekly"
    /\ rule.day_filter = EVERYDAY
    /\ Len(out[1]) >= 2
    /\ is_weekday_in_filter(Weekday(out[1][2].from), rule.frequency.days)
    /\ out[1][2].ret = Some(out[1][2].from + 7)

\* C13: over a Monthly{date: d} rule with d in 1..28 and day_filter =
\* everyday, a pull that reaches the frequency advancement returns day d of
\* the cursor's month when the cursor's day-of-month is below d, and of the
\* following month otherwise (January of the next year after December): the
\* earliest date strictly after the cursor whose day-of-month is d
\* (end-of-sequence when that month is not representable).
C13_MonthlyEarliestAfterCursor ==
    \A g \in IterIds : \A i \in DOMAIN out[g] :
        (/\ rule.frequency.kind = "Monthly"
         /\ rule.frequency.date \in 1..28
         /\ rule.day_filter = EVERYDAY
         /\ ReachedAdvance(out[g][i]))
        => LET t == MonthlyTarget(out[g][i].from, rule.frequency.date)
           IN  IF IndexYear(t) <= MaxYear
               THEN /\ out[g][i].ret =
                            Some(Ymd(IndexYear(t), IndexMonth(t), rule.frequency.date))
                    /\ out[g][i].ret.val > out[g][i].from
                    /\ \A x \in (out[g][i].from + 1)..(out[g][i].ret.val - 1) :
                            DayOf(x) # rule.frequency.date
               ELSE out[g][i].ret = None

\* a pull from a cursor in December returned a date in January of the next year
C13_Witness ==
    /\ rule.frequency.kind = "Monthly"
    /\ rule.frequency.date \in 1..28
    /\ rule.day_filter = EVERYDAY
    /\ Len(out[1]) >= 1
    /\ MonthOf(out[1][1].from) = 12
    /\ IsSome(out[1][1].ret)
    /\ MonthOf(out[1][1].ret.val) = 1
    /\ YearOf(out[1][1].ret.val) = YearOf(out[1][1].from) + 1

\* the year a Yearly{date, month} pull from cursor cur aims at: the cursor's
\* year when the cursor's (month, day) is lexicographically before
\* (month, date), the next year otherwise
YearlyTarget(cur, date, month) ==
    IF \/ MonthOf(cur) < month
       \/ (MonthOf(cur) = month /\ DayOf(cur) < date)
    THEN YearOf(cur)
    ELSE YearOf(cur) + 1

\* C14: over a Yearly{date, month} rule whose (month, date) exists in every
\* year and with day_filter = everyday, a pull that reaches the frequency
\* advancement returns (month, date) of the cursor's year when the cursor's
\* (month, day) is lexicographically before it and of the next year
\* otherwise, the earliest such date strictly after the cursor, as far as
\* that year is representable.
C14_YearlyEarliestAfterCursor ==
    \A g \in IterIds : \A i \in DOMAIN out[g] :
        (/\ rule.frequency.kind = "Yearly"
         /\ AlwaysValid(rule.frequency)
         /\ rule.day_filter = EVERYDAY
         /\ ReachedAdvance(out[g][i])
         /\ YearlyTarget(out[g][i].from, rule.frequency.date, rule.frequency.month)
                <= MaxYear)
        => /\ out[g][i].ret =
                Some(Ymd(YearlyTarget(out[g][i].from, rule.frequency.date,
                                      rule.frequency.month),
                         rule.frequency.month, rule.frequency.date))
           /\ out[g][i].ret.val > out[g][i].from
           /\ \A x \in (out[g][i].from + 1)..(out[g][i].ret.val - 1) :
                ~(MonthOf(x) = rule.frequency.month /\ DayOf(x) = rule.frequency.date)

\* a pull from a cursor on the very (month, date) of the rule returned the
\* same day of the next year
C14_Witness ==
    /\ rule.frequency.kind = "Yearly"
    /\ AlwaysValid(rule.frequency)
    /\ rule.day_filter = EVERYDAY
    /\ Len(out[1]) >= 2
    /\ MonthOf(out[1][2].from) = rule.frequency.month
    /\ DayOf(out[1][2].from) = rule.frequency.date
    /\ out[1][2].ret =
            Some(Ymd(YearOf(out[1][2].from) + 1, rule.frequency.month, rule.frequency.date))

\* +1 for IntoFuture, -1 for IntoPast
Step(direction) == IF direction = IntoFuture THEN 1 ELSE 0 - 1

\* how many days from t, in the given direction, the nearest date with a
\* weekday in the (non-empty) filter lies: 0 when t itself has one
DaysToFilter(t, filter, direction) ==
    CHOOSE k \in 0..6 :
        /\ is_weekday_in_filter(Weekday(t + k * Step(direction)), filter)
        /\ \A j \in 0..(k - 1) :
                ~is_weekday_in_filter(Weekday(t + j * Step(direction)), filter)

\* the date the resolution of tentative date t comes to
Resolved(t, filter, direction) ==
    t + DaysToFilter(t, filter, direction) * Step(direction)

\* C15: with a non-empty day_filter, a pull that got a tentative date t
\* emits t when its weekday is in day_filter and otherwise the nearest date
\* after t (into_future) or before t (into_past) whose weekday is, when that
\* date is representable (end-of-sequence when not); an emitted date has a
\* weekday of day_filter and lies within 6 days of t.
C15_ResolutionIsNearest ==
    \A g \in IterIds : \A i \in DOMAIN out[g] :
        (rule.day_filter # NODAY /\ IsSome(out[g][i].tentative))
        => LET t == out[g][i].tentative.val
               e == Resolved(out[g][i].tentative.val, rule.day_filter, rule.resolve)
           IN  /\ is_weekday_in_filter(Weekday(t), rule.day_filter) => e = t
               /\ rule.resolve = IntoFuture => e >= t
               /\ rule.resolve = IntoPast => e <= t
               /\ e - t \in (0 - 6)..6
               /\ is_weekday_in_filter(Weekday(e), rule.day_filter)
               /\ IF e \in MinDate..MaxDate
                  THEN out[g][i].ret = Some(e)
                  ELSE out[g][i].ret = None

\* a tentative date outside day_filter was resolved into another month
C15_Witness ==
    /\ rule.day_filter # NODAY
    /\ Len(out[1]) >= 1
    /\ IsSome(out[1][1].tentative)
    /\ IsSome(out[1][1].ret)
    /\ ~is_weekday_in_filter(Weekday(out[1][1].tentative.val), rule.day_filter)
    /\ MonthOf(out[1][1].ret.val) # MonthOf(out[1][1].tentative.val)

\* what n calls of next() return on an iterator that nobody else touches
RECURSIVE RunAlone(_, _, _)
RunAlone(it, r, n) ==
    IF n = 0
    THEN <<>>
    ELSE <<IterNext(it, r)>> \o RunAlone(IterNext(it, r).it, r, n - 1)

\* every live iterator has returned what it returns when pulled alone
C16_AsAlone ==
    \A g \in IterIds :
        IsSome(seed[g]) =>
            out[g] = RunAlone([currently_at |-> seed[g].val.start, index |-> 0],
                              rule, Len(out[g]))

\* a call of next() changes neither the rule nor another iterator
C16_Step ==
    call'.op = "next" =>
        /\ rule' = rule
        /\ \A h \in IterIds \ {call'.id} :
                /\ iters'[h] = iters[h]
                /\ out'[h] = out[h]

\* C16: two iterators over the same rule are independent: under every
\* interleaving of their pulls each returns the sequence it returns when
\* pulled alone, and no pull changes a field of the rule or the other
\* iterator.
C16_Independent == [](C16_AsAlone) /\ [][C16_Step]_vars

\* two iterators made from different start points have both been pulled
\* twice and have emitted different dates
C16_Witness ==
    /\ IsSome(seed[1])
    /\ IsSome(seed[2])
    /\ seed[1].val.start # seed[2].val.start
    /\ Len(out[1]) = 2
    /\ Len(out[2]) = 2
    /\ IsSome(out[1][2].ret)
    /\ IsSome(out[2][2].ret)
    /\ out[1][2].ret # out[2][2].ret

\* the rule's Weekly.days set is empty
EmptyDays == rule.frequency.kind = "Weekly" /\ rule.frequency.days = NODAY

\* the pull recorded in rec entered a day-by-day scan for a weekday of an
\* empty set: the weekly scan, or the resolution of a tentative date
EmptyScan(rec) ==
    \/ EmptyDays /\ ReachedAdvance(rec) /\ rec.from < MaxDate
    \/ rule.day_filter = NODAY /\ IsSome(rec.tentative)

\* C17 as the specification states it: a pull that scans for a weekday of an
\* empty Weekly.days or day_filter never ends, it returns neither an
\* occurrence nor end-of-sequence.
C17_Original ==
    \A g \in IterIds : \A i \in DOMAIN out[g] :
        EmptyScan(out[g][i]) => (~IsSome(out[g][i].ret) /\ out[g][i].ret # None)

\* C17: a pull on a rule whose Weekly.days or day_filter is empty never
\* returns an occurrence, and it does end: the scan for a weekday of the
\* empty set tests every date up to the last representable one (the weekly
\* scan and the resolution into_future) or down to the first (the
\* resolution into_past), where checked_add_days / checked_sub_days fails
\* and the pull returns end-of-sequence.
C17_EmptySetScansToTheEnd ==
    \A g \in IterIds : \A i \in DOMAIN out[g] :
        /\ (EmptyDays \/ rule.day_filter = NODAY) => ~IsSome(out[g][i].ret)
        /\ (EmptyDays /\ ReachedAdvance(out[g][i]))
           => /\ out[g][i].ret = None
              /\ out[g][i].scan = MaxDate - out[g][i].from
        /\ (rule.day_filter = NODAY /\ IsSome(out[g][i].tentative))
           => /\ out[g][i].ret = None
              /\ out[g][i].resolve =
                     IF rule.resolve = IntoFuture
                     THEN (MaxDate - out[g][i].tentative.val) + 1
                     ELSE (out[g][i].tentative.val - MinDate) + 1

\* a weekly scan over an empty days set ran through more than a year of
\* dates and the pull returned end-of-sequence
C17_Witness ==
    /\ EmptyDays
    /\ Len(out[1]) >= 1
    /\ ReachedAdvance(out[1][1])
    /\ out[1][1].scan > 366
    /\ out[1][1].ret = None

\* the month of date n, counted through the years
MonthIndexOf(n) == MonthIndex(YearOf(n), MonthOf(n))

\* a Monthly{date: d} rule with d in 1..28, a non-empty day_filter and
\* resolve = into_future
C18_Case ==
    /\ rule.frequency.kind = "Monthly"
    /\ rule.frequency.date \in 1..28
    /\ rule.day_filter # NODAY
    /\ rule.resolve = IntoFuture

\* C18: over such a rule the pulls of an iterator target consecutive
\* calendar months: the first targets day d of the first month whose day d
\* is after the start point, every later one day d of the month after the
\* month targeted before it, also when the date emitted before was resolved
\* into the following month; no month is skipped and none is targeted twice.
C18_ConsecutiveMonths ==
    \A g \in IterIds : \A i \in DOMAIN out[g] :
        (C18_Case /\ IsSome(out[g][i].tentative))
        => /\ DayOf(out[g][i].tentative.val) = rule.frequency.date
           /\ MonthIndexOf(out[g][i].tentative.val) =
                  IF i = 1
                  THEN MonthlyTarget(seed[g].val.start, rule.frequency.date)
                  ELSE MonthIndexOf(out[g][i - 1].tentative.val) + 1
           /\ i > 1 => /\ IsSome(out[g][i - 1].ret)
                       /\ out[g][i - 1].ret.val >= out[g][i - 1].tentative.val
                       /\ out[g][i].tentative.val > out[g][i - 1].ret.val

\* the date emitted first was resolved into the month after its target, and
\* the next pull targeted that month
C18_Witness ==
    /\ C18_Case
    /\ Len(out[1]) >= 2
    /\ IsSome(out[1][1].ret)
    /\ MonthIndexOf(out[1][1].ret.val) = MonthIndexOf(out[1][1].tentative.val) + 1
    /\ IsSome(out[1][2].tentative)
    /\ MonthIndexOf(out[1][2].tentative.val) = MonthIndexOf(out[1][1].ret.val)

\* resolve = into_future, a non-empty day_filter and, over a Weekly rule, a
\* non-empty days set
C19_Case ==
    /\ rule.resolve = IntoFuture
    /\ rule.day_filter # NODAY
    /\ rule.frequency.kind = "Weekly" => rule.frequency.days # NODAY

\* C19: over such a rule every emitted date is strictly after the cursor the
\* pull started from; so the dates an iterator emits are strictly
\* increasing and the first is strictly after the start point.
C19_ForwardProgress ==
    \A g \in IterIds :
        C19_Case =>
            /\ \A i \in EmittedAt(g) :
                    /\ out[g][i].ret.val > out[g][i].from
                    /\ out[g][i].ret.val > seed[g].val.start
                    /\ out[g][i].it.currently_at = out[g][i].ret.val
            /\ \A i, j \in EmittedAt(g) :
                    i < j => out[g][i].ret.val < out[g][j].ret.val

\* an iterator emitted three dates, the second of them moved forward by the
\* resolution
C19_Witness ==
    /\ C19_Case
    /\ rule.day_filter # EVERYDAY
    /\ Len(out[1]) >= 3
    /\ IsSome(out[1][1].ret)
    /\ IsSome(out[1][2].ret)
    /\ IsSome(out[1][3].ret)
    /\ out[1][2].resolve > 0
    /\ out[1][2].ret.val > out[1][2].tentative.val

\* C20: over a rule whose day_filter is non-empty and whose Weekly.days, if
\* the frequency is Weekly, is non-empty, the weekly scan loop and the
\* resolution loop each take at most 6 iterations in every pull, whether
\* they find their weekday or run out of representable dates.
C20_LoopsWithinAWeek ==
    \A g \in IterIds : \A i \in DOMAIN out[g] :
        (/\ rule.day_filter # NODAY
         /\ rule.frequency.kind = "Weekly" => rule.frequency.days # NODAY)
        => /\ out[g][i].scan \in 0..6
           /\ out[g][i].resolve \in 0..6
           /\ IsSome(out[g][i].ret) =>
                /\ out[g][i].resolve =
                        IF rule.resolve = IntoFuture
                        THEN out[g][i].ret.val - out[g][i].tentative.val
                        ELSE out[g][i].tentative.val - out[g][i].ret.val
                /\ rule.frequency.kind = "Weekly" =>
                        out[g][i].scan = (out[g][i].tentative.val - out[g][i].from) - 1

\* a pull whose weekly scan took 5 iterations and whose resolution took all 6
C20_Witness ==
    /\ rule.frequency.kind = "Weekly"
    /\ Len(out[1]) >= 2
    /\ IsSome(out[1][2].ret)
    /\ out[1][2].scan = 5
    /\ out[1][2].resolve = 6

====
